---- MODULE Spec2Model ----
(***************************************************************************)
(* A model of clickhouse_driver/connect.py: the DB-API Connection and      *)
(* Cursor adapter over the underlying ClickHouse client.                   *)
(*                                                                         *)
(* One cursor (the first one the connection issues) is modelled in full;   *)
(* of the other cursors only their membership in Connection.cursors and    *)
(* whether disconnect() was invoked on their client is kept, since every   *)
(* cursor owns its client exclusively.  The underlying client is the       *)
(* environment: what it returns or raises is drawn with \E in the actions. *)
(***************************************************************************)
EXTENDS Integers, Sequences, FiniteSets, TLC

(* ------------------------------ bounds -------------------------------- *)
\* longest result set the client returns
MaxRows == 2
\* largest explicit size handed to fetchmany
MaxSize == 2
\* number of cursors a connection issues
MaxCursors == 1

(* ------------------------- Python values ------------------------------ *)
\* A Python value the cursor holds in _rows/_columns/_types or returns from a
\* fetch: None, a list, a lazy iterator (generator) or a single row.
\* An iterator carries the rows it has not produced yet and `fail`: the
\* number of pulls that still succeed before the client raises its native
\* error (-1: the client never fails).
NoneV == [kind |-> "None", items |-> <<>>, fail |-> -1]
ListV(s) == [kind |-> "list", items |-> s, fail |-> -1]
IterV(s, f) == [kind |-> "iter", items |-> s, fail |-> f]
RowV(r) == [kind |-> "row", items |-> <<r>>, fail |-> -1]
IntV(n) == [kind |-> "int", items |-> <<n>>, fail |-> -1]

NoExc == [type |-> "none", arg |-> ""]
Exc(t, a) == [type |-> t, arg |-> a]

Min(a, b) == IF a < b THEN a ELSE b
Max(a, b) == IF a > b THEN a ELSE b

\* rows[:k] and rows[k:] with Python's meaning of a negative k
SliceTo(s, k) ==
    IF k >= 0 THEN SubSeq(s, 1, Min(k, Len(s)))
    ELSE SubSeq(s, 1, Max(0, Len(s) + k))
SliceFrom(s, k) ==
    IF k >= 0 THEN SubSeq(s, Min(k, Len(s)) + 1, Len(s))
    ELSE SubSeq(s, Max(0, Len(s) + k) + 1, Len(s))

\* next(it) that loses the element after the one it yields
PyNextSkips(it) ==
    IF it.fail = 0
    THEN [exc |-> "DriverError", val |-> 0, it |-> IterV(<<>>, -1)]
    ELSE IF it.items = <<>>
    THEN [exc |-> "StopIteration", val |-> 0, it |-> it]
    ELSE [exc |-> "none", val |-> Head(it.items),
          it |-> IterV(IF Len(it.items) >= 2 THEN Tail(Tail(it.items))
                       ELSE <<>>,
                       IF it.fail > 0 THEN it.fail - 1 ELSE -1)]

\* next(it) on a generator: the client's native error ends the generator.
PyNext(it) ==
    IF it.fail = 0
    THEN [exc |-> "DriverError", val |-> 0, it |-> IterV(<<>>, -1)]
    ELSE IF it.items = <<>>
    THEN [exc |-> "StopIteration", val |-> 0, it |-> it]
    ELSE [exc |-> "none", val |-> Head(it.items),
          it |-> IterV(Tail(it.items), IF it.fail > 0 THEN it.fail - 1 ELSE -1)]

\* list(islice(it, limit)) for limit >= 0, list(it) for limit = -1: pulls one
\* element at a time; elements pulled before a failure are lost with it.
RECURSIVE PullMany(_, _, _)
PullMany(it, limit, acc) ==
    IF limit = 0 THEN [exc |-> NoExc, ret |-> ListV(acc), rows |-> it]
    ELSE LET p == PyNext(it) IN
         IF p.exc = "DriverError"
         THEN [exc |-> Exc("DriverError", ""), ret |-> NoneV, rows |-> p.it]
         ELSE IF p.exc = "StopIteration"
         THEN [exc |-> NoExc, ret |-> ListV(acc), rows |-> p.it]
         ELSE PullMany(p.it, IF limit > 0 THEN limit - 1 ELSE limit,
                       Append(acc, p.val))

Raise(t, a, rws) == [exc |-> Exc(t, a), ret |-> NoneV, rows |-> rws]
Return(v, rws) == [exc |-> NoExc, ret |-> v, rows |-> rws]

(* --------------------------- fetch bodies ----------------------------- *)
\* Cursor.fetchone after _check_query_started
FetchOneBody(stream, rws) ==
    IF stream
    THEN IF rws.kind = "iter"
         THEN LET p == PyNext(rws) IN
              IF p.exc = "DriverError" THEN Raise("DriverError", "", p.it)
              ELSE IF p.exc = "StopIteration" THEN Return(NoneV, p.it)
              ELSE Return(RowV(p.val), p.it)
         ELSE Raise("TypeError", "not an iterator", rws)
    ELSE IF rws.kind = "iter"
         THEN Raise("AttributeError", "pop", rws)
         ELSE IF rws.items = <<>>
         THEN Return(NoneV, rws)
         ELSE Return(RowV(Head(rws.items)), ListV(Tail(rws.items)))

\* fetchmany that forgets `self._rows = self._rows[size:]`
FetchManyKeepsRows(stream, rws, size) ==
    IF stream
    THEN IF size < 0 THEN Raise("ValueError", "islice stop", rws)
         ELSE IF rws.kind = "None" THEN Raise("TypeError", "not iterable", rws)
         ELSE IF rws.kind = "list"
         THEN Return(ListV(SliceTo(rws.items, size)), rws)
         ELSE PullMany(rws, size, <<>>)
    ELSE IF rws.kind # "list"
         THEN Raise("TypeError", "not subscriptable", rws)
         ELSE Return(ListV(SliceTo(rws.items, size)), rws)

\* Cursor.fetchmany after _check_query_started, size already defaulted
FetchManyBody(stream, rws, size) ==
    IF stream
    THEN IF size < 0 THEN Raise("ValueError", "islice stop", rws)
         ELSE IF rws.kind = "None" THEN Raise("TypeError", "not iterable", rws)
         ELSE IF rws.kind = "list"
         THEN Return(ListV(SliceTo(rws.items, size)), rws)
         ELSE PullMany(rws, size, <<>>)
    ELSE IF rws.kind # "list"
         THEN Raise("TypeError", "not subscriptable", rws)
         ELSE Return(ListV(SliceTo(rws.items, size)),
                     ListV(SliceFrom(rws.items, size)))

\* Cursor.fetchall after _check_query_started
FetchAllBody(stream, rws) ==
    IF stream
    THEN IF rws.kind = "None" THEN Raise("TypeError", "not iterable", rws)
         ELSE IF rws.kind = "list" THEN Return(rws, rws)
         ELSE PullMany(rws, -1, <<>>)
    ELSE Return(rws, ListV(<<>>))

(* ------------------------- staged options ----------------------------- *)
\* A settings dict (a function from its keys) or None.
NoSettings == [kind |-> "None", map |-> <<>>]
Dict(m) == [kind |-> "dict", map |-> m]
SetKey(m, key, v) ==
    [k \in (DOMAIN m) \cup {key} |-> IF k = key THEN v ELSE m[k]]

\* the settings dicts a caller stages
SettingsInputs ==
    {NoSettings,
     Dict([k \in {"max_threads", "max_block_size"} |->
             IF k = "max_threads" THEN 1 ELSE 9])}

\* External-table names are strings, modelled as sequences of characters.
Names == {<<"x">>, <<"e", "t">>}
Structures == {"s1"}
Datas == {"d1", "d2"}

NoTables == [kind |-> "None", tables |-> {}]
Tables(t) == [kind |-> "list", tables |-> t]

\* `for name, (structure, data) in self._external_tables` iterates the keys
\* of the dict: a key unpacks into `name, (structure, data)` only when it
\* has two elements and its second element has two elements as well; the
\* second element of a string is a string of one character.
KeyUnpacks(key) == Len(key) = 2 /\ Len(SubSeq(key, 2, 2)) = 2

\* _prepare that hands the client the default type-checking flag
PrepareDropsTypesCheck(stream, buffer, settings, ext, check) ==
    [exc |-> IF \E key \in DOMAIN ext : ~KeyUnpacks(key)
             THEN Exc("ValueError", "unpack") ELSE NoExc,
     entry |-> IF \E key \in DOMAIN ext : ~KeyUnpacks(key) THEN "none"
               ELSE IF stream THEN "execute_iter" ELSE "execute",
     settings |-> IF stream /\ \A key \in DOMAIN ext : KeyUnpacks(key)
                  THEN Dict(SetKey(IF settings.kind = "None" THEN <<>>
                                   ELSE settings.map,
                                   "max_block_size", buffer))
                  ELSE settings,
     external_tables |-> NoTables,
     types_check |-> FALSE]

\* _prepare that never switches to the streaming entry point
PrepareIgnoresStream(stream, buffer, settings, ext, check) ==
    [exc |-> IF \E key \in DOMAIN ext : ~KeyUnpacks(key)
             THEN Exc("ValueError", "unpack") ELSE NoExc,
     entry |-> IF \E key \in DOMAIN ext : ~KeyUnpacks(key) THEN "none"
               ELSE "execute",
     settings |-> settings,
     external_tables |-> NoTables,
     types_check |-> check]

\* Cursor._prepare: the callable and the keyword arguments, or the exception
\* raised while building them; `settings` is self._settings afterwards.
Prepare(stream, buffer, settings, ext, check) ==
    IF \E key \in DOMAIN ext : ~KeyUnpacks(key)
    THEN [exc |-> Exc("ValueError", "unpack"), entry |-> "none",
          settings |-> settings, external_tables |-> NoTables,
          types_check |-> check]
    ELSE LET tables ==
                 IF DOMAIN ext = {} THEN NoTables
                 ELSE Tables({[name |-> key[1], structure |-> key[2][1],
                               data |-> key[2][2]] : key \in DOMAIN ext})
             used ==
                 IF stream
                 THEN Dict(SetKey(IF settings.kind = "None" THEN <<>>
                                  ELSE settings.map,
                                  "max_block_size", buffer))
                 ELSE settings
         IN [exc |-> NoExc,
             entry |-> IF stream THEN "execute_iter" ELSE "execute",
             settings |-> used, external_tables |-> tables,
             types_check |-> check]

NoCall ==
    [entry |-> "none", settings |-> NoSettings, external_tables |-> NoTables,
     types_check |-> FALSE, with_column_types |-> "absent"]

(* ------------------------ client responses ---------------------------- *)
\* column headers (name, type) the client reports
CWTs ==
    {<<>>, <<<<"x", "UInt8">>>>, <<<<"x", "UInt8">>, <<"y", "String">>>>}
\* result sets: rows 1..n, all distinct, so that loss, duplication and
\* reordering are visible
RowSets == {[i \in 1..n |-> i] : n \in 0..MaxRows}
\* the responses of a client that serves one one-column table of one row
BriefCWTs == {<<<<"x", "UInt8">>>>}
BriefRowSets == {<<>>, <<1>>}
\* affected-row counts the client reports for a bulk write
Counts == {2}
\* block sizes a caller hands to set_stream_results
RowBuffers == {5}

Resp(k, r, c, f, n) ==
    [kind |-> k, rows |-> r, cwt |-> c, fail |-> f, n |-> n]

\* what client.execute may do: raise its native error, return an empty
\* response, a pair (rows, columns_with_types), or a count for a bulk write
BufferedResponses(many, rowsets, cwts) ==
    {Resp("raise", <<>>, <<>>, -1, 0)}
    \cup (IF many
          THEN {Resp("count", <<>>, <<>>, -1, n) : n \in Counts}
          ELSE {Resp("empty", <<>>, <<>>, -1, 0)}
               \cup {Resp("pair", r, c, -1, 0) : r \in rowsets, c \in cwts})
\* what client.execute_iter may do: raise, or return a generator that yields
\* the header and then the rows, and may fail at any of its pulls
StreamResponses(many, rowsets, cwts) ==
    {Resp("raise", <<>>, <<>>, -1, 0)}
    \cup IF many THEN {Resp("iter", <<>>, <<>>, -1, 0)}
         ELSE
         {x \in {Resp("iter", r, c, f, 0) :
                   r \in rowsets, c \in cwts, f \in -1..(MaxRows + 1)} :
            x.fail <= Len(x.rows) + 1}

Columns(cwt) == ListV([i \in 1..Len(cwt) |-> cwt[i][1]])
\* a split of the header that loses the type of the last column
TypesDropsLast(cwt) ==
    ListV([i \in 1..(IF Len(cwt) = 0 THEN 0 ELSE Len(cwt) - 1) |-> cwt[i][2]])
Types(cwt) == ListV([i \in 1..Len(cwt) |-> cwt[i][2]])

\* Cursor._process_response: the new (_columns, _types, _rows, _rowcount),
\* or the exception that escapes it, which leaves the fields as they were.
ProcessResponse(resp, many, stream, cur) ==
    LET count == IF many
                 THEN IF resp.kind = "count" THEN IntV(resp.n)
                      ELSE IterV(resp.rows, resp.fail)
                 ELSE cur.rowcount
    IN IF many \/ resp.kind = "empty"
       THEN [exc |-> NoExc, columns |-> ListV(<<>>), types |-> ListV(<<>>),
             rows |-> ListV(<<>>), rowcount |-> count]
       ELSE IF stream
       THEN IF resp.fail = 0
            THEN [exc |-> Exc("DriverError", ""), columns |-> cur.columns,
                  types |-> cur.types, rows |-> cur.rows, rowcount |-> count]
            ELSE [exc |-> NoExc, columns |-> Columns(resp.cwt),
                  types |-> Types(resp.cwt),
                  rows |-> IterV(resp.rows,
                                 IF resp.fail > 0 THEN resp.fail - 1 ELSE -1),
                  rowcount |-> count]
       ELSE [exc |-> NoExc, columns |-> Columns(resp.cwt),
             types |-> Types(resp.cwt), rows |-> ListV(resp.rows),
             rowcount |-> count]

(* ------------------------------ state --------------------------------- *)
VARIABLES
    cursors,          \* Connection.cursors: the cursors issued, in order
    disconnected,     \* cursors on whose client disconnect() was invoked
    state,            \* Cursor._state
    columns,          \* Cursor._columns
    types,            \* Cursor._types
    rows,             \* Cursor._rows
    rowcountField,    \* Cursor._rowcount
    arraysize,        \* Cursor.arraysize
    stream_results,   \* Cursor._stream_results
    max_row_buffer,   \* Cursor._max_row_buffer
    settings,         \* Cursor._settings
    external_tables,  \* Cursor._external_tables
    types_check,      \* Cursor._types_check
    lastOp,           \* the operation called last
    raised,           \* the exception it raised (NoExc: it returned)
    ret,              \* the value it returned
    asked,            \* the size fetchmany was called with (-1: none)
    call,             \* the client entry point it invoked, with its arguments
    staged,           \* the settings last handed to set_settings
    full,             \* rows of the response of the last successful execute
    fetched,          \* rows the fetch calls have returned since, in order
    pure,             \* only fetch calls were made since, and no pull failed
    bulk,             \* the same, since the last successful executemany
    toggled           \* the same, since the last successful execute, but for
                      \* set_stream_results calls, of which one was made

result == <<columns, types, rows, rowcountField>>
options ==
    <<stream_results, max_row_buffer, settings, external_tables, types_check>>
observed == <<lastOp, raised, ret, asked, call>>
history == <<full, fetched, pure, bulk, toggled>>
conn == <<cursors, disconnected>>
\* what only the caller sets
caller == <<arraysize, staged>>
vars == <<conn, state, result, caller, options, observed, history>>

\* Cursor.__init__ and Cursor._reset_state; Connection.__init__
Init ==
    /\ cursors = <<>>
    /\ disconnected = {}
    /\ state = "NONE"
    /\ columns = NoneV
    /\ types = NoneV
    /\ rows = NoneV
    /\ rowcountField = IntV(-1)
    /\ arraysize = -1
    /\ stream_results = FALSE
    /\ max_row_buffer = 0
    /\ settings = NoSettings
    /\ external_tables = <<>>
    /\ types_check = FALSE
    /\ lastOp = "init"
    /\ raised = NoExc
    /\ ret = NoneV
    /\ asked = -1
    /\ call = NoCall
    /\ staged = NoSettings
    /\ full = <<>>
    /\ fetched = <<>>
    /\ pure = FALSE
    /\ bulk = FALSE
    /\ toggled = FALSE

\* the modelled cursor exists once the connection has issued it
Issued == Len(cursors) >= 1

\* Cursor.description
description ==
    LET c == IF columns.kind = "None" THEN <<>> ELSE columns.items
        t == IF types.kind = "None" THEN <<>> ELSE types.items
    IN [i \in 1..Min(Len(c), Len(t)) |->
          <<c[i], t[i], "None", "None", "None", "None", TRUE>>]

\* Cursor.rowcount
rowcount == -1

Observe(op, exc, value, invoked) ==
    /\ lastOp' = op
    /\ raised' = exc
    /\ ret' = value
    /\ asked' = -1
    /\ call' = invoked

ObserveFetch(op, size, exc, value) ==
    /\ lastOp' = op
    /\ raised' = exc
    /\ ret' = value
    /\ asked' = size
    /\ call' = NoCall

\* a run of fetch calls after a query: which query it follows, and whether
\* set_stream_results was called in it
Run(rws, afterExecute, afterMany, withToggle) ==
    /\ full' = rws
    /\ fetched' = <<>>
    /\ pure' = afterExecute
    /\ bulk' = afterMany
    /\ toggled' = withToggle

Forget == Run(<<>>, FALSE, FALSE, FALSE)

(* ---------------------------- Connection ------------------------------ *)
\* Connection.cursor
ConnectionCursor ==
    /\ Len(cursors) < MaxCursors
    /\ cursors' = Append(cursors, Len(cursors) + 1)
    /\ Observe("Connection.cursor", NoExc, NoneV, NoCall)
    /\ UNCHANGED <<disconnected, state, result, caller, options, history>>

\* Connection.close: `cursor.disconnect()` on the first cursor; Cursor has no
\* attribute of that name
ConnectionClose ==
    /\ Observe("Connection.close",
               IF cursors = <<>> THEN NoExc
               ELSE Exc("AttributeError", "disconnect"),
               NoneV, NoCall)
    /\ UNCHANGED <<conn, state, result, caller, options, history>>

(* ------------------------------ Cursor -------------------------------- *)
\* a closed-cursor check that compares with the wrong state
CheckCursorClosedWrongState == state = "NONE"
\* Cursor._check_cursor_closed raises
CheckCursorClosed == state = "CURSOR_CLOSED"
\* a query-started check that never raises
CheckQueryStartedNever == FALSE
\* Cursor._check_query_started raises
CheckQueryStarted == state = "NONE"

\* Cursor.close
CursorClose ==
    /\ Issued
    /\ disconnected' = disconnected \cup {1}
    /\ state' = "CURSOR_CLOSED"
    /\ Observe("close", NoExc, NoneV, NoCall)
    /\ Forget
    /\ UNCHANGED <<cursors, result, caller, options>>

\* Cursor.execute (many = FALSE) and Cursor.executemany (many = TRUE), for
\* the response `resp` of the client
RunQuery(op, many, resp) ==
    IF CheckCursorClosed
    THEN /\ Observe(op, Exc("Error", "Cursor is closed"), NoneV, NoCall)
         /\ UNCHANGED <<conn, state, result, caller, options, history>>
    ELSE
    LET prep == Prepare(stream_results, max_row_buffer, settings,
                        external_tables, types_check)
        invoked == [entry |-> prep.entry, settings |-> prep.settings,
                    external_tables |-> prep.external_tables,
                    types_check |-> prep.types_check,
                    with_column_types |-> IF many THEN "absent" ELSE "True"]
        pr == ProcessResponse(resp, many, stream_results,
                              [columns |-> columns, types |-> types,
                               rows |-> rows, rowcount |-> rowcountField])
    IN
    /\ UNCHANGED <<conn, caller, stream_results, max_row_buffer,
                   external_tables, types_check>>
    /\ IF prep.exc # NoExc
       THEN \* _prepare raised: not the client's error, it propagates
            /\ state' = "RUNNING"
            /\ Observe(op, prep.exc, NoneV, NoCall)
            /\ Forget
            /\ UNCHANGED <<result, settings>>
       ELSE
       /\ settings' = prep.settings
       /\ IF resp.kind = "raise"
          THEN /\ state' = "RUNNING"
               /\ Observe(op, Exc("OperationalError", "DriverError"),
                          NoneV, invoked)
               /\ Forget
               /\ UNCHANGED result
          ELSE
          /\ columns' = pr.columns
          /\ types' = pr.types
          /\ rows' = pr.rows
          /\ rowcountField' = pr.rowcount
          /\ Observe(op, pr.exc, NoneV, invoked)
          /\ IF pr.exc # NoExc
             THEN state' = "RUNNING" /\ Forget
             ELSE /\ state' = "FINISHED"
                  /\ IF many THEN Run(<<>>, FALSE, TRUE, FALSE)
                     ELSE Run(resp.rows, TRUE, FALSE, FALSE)

Query(op, many, rowsets, cwts) ==
    /\ Issued
    /\ \E resp \in (IF stream_results
                    THEN StreamResponses(many, rowsets, cwts)
                    ELSE BufferedResponses(many, rowsets, cwts)) :
          RunQuery(op, many, resp)

\* Cursor.execute
Execute == Query("execute", FALSE, RowSets, CWTs)
\* Cursor.execute against the client that serves the one-row table
ExecuteBrief == Query("execute", FALSE, BriefRowSets, BriefCWTs)
\* Cursor.executemany
ExecuteMany == Query("executemany", TRUE, RowSets, CWTs)

\* rows a fetch call handed to the caller (a null marker carries none)
RetRows(v) == IF v.kind \in {"row", "list"} THEN v.items ELSE <<>>

\* a fetch call: _check_query_started, then the body `r` of the method;
\* `claimed` tells whether the call keeps the run of fetch calls going
Fetch(op, size, r, claimed) ==
    /\ Issued
    /\ UNCHANGED <<conn, state, columns, types, rowcountField, caller,
                   options>>
    /\ IF CheckQueryStarted
       THEN /\ ObserveFetch(op, size, Exc("Error", "No query yet"), NoneV)
            /\ UNCHANGED <<rows, history>>
       ELSE /\ rows' = r.rows
            /\ ObserveFetch(op, size, r.exc, r.ret)
            /\ IF claimed /\ r.exc.type # "DriverError"
               THEN /\ fetched' =
                         IF pure THEN fetched \o RetRows(r.ret) ELSE fetched
                    /\ UNCHANGED <<full, pure, bulk, toggled>>
               ELSE Forget

\* Cursor.fetchone
FetchOne == Fetch("fetchone", -1, FetchOneBody(stream_results, rows), TRUE)

\* Cursor.fetchmany(size)
FetchManySize ==
    \E size \in 0..MaxSize :
        Fetch("fetchmany", size,
              FetchManyBody(stream_results, rows, size), TRUE)

\* Cursor.fetchmany(): size is None and becomes self.arraysize
FetchManyDefault ==
    Fetch("fetchmany()", arraysize,
          FetchManyBody(stream_results, rows, arraysize), arraysize >= 0)

\* Cursor.fetchall
FetchAll == Fetch("fetchall", -1, FetchAllBody(stream_results, rows), TRUE)

\* Cursor.set_stream_results
SetStreamResults ==
    /\ Issued
    /\ \E flag \in BOOLEAN, buffer \in RowBuffers :
          /\ stream_results' = flag
          /\ max_row_buffer' = buffer
    /\ Observe("set_stream_results", NoExc, NoneV, NoCall)
    /\ Run(<<>>, FALSE, FALSE, pure \/ toggled)
    /\ UNCHANGED <<conn, state, result, caller, settings, external_tables,
                   types_check>>

\* Cursor.set_settings
SetSettings ==
    /\ Issued
    /\ \E s \in SettingsInputs : settings' = s /\ staged' = s
    /\ Observe("set_settings", NoExc, NoneV, NoCall)
    /\ Forget
    /\ UNCHANGED <<conn, state, result, arraysize, stream_results,
                   max_row_buffer, external_tables, types_check>>

\* Cursor.set_types_check
SetTypesCheck ==
    /\ Issued
    /\ \E flag \in BOOLEAN : types_check' = flag
    /\ Observe("set_types_check", NoExc, NoneV, NoCall)
    /\ Forget
    /\ UNCHANGED <<conn, state, result, caller, stream_results,
                   max_row_buffer, settings, external_tables>>

\* Cursor.set_external_table
SetExternalTable ==
    /\ Issued
    /\ \E name \in Names, structure \in Structures, data \in Datas :
          external_tables' =
              SetKey(external_tables, name, <<structure, data>>)
    /\ Observe("set_external_table", NoExc, NoneV, NoCall)
    /\ Forget
    /\ UNCHANGED <<conn, state, result, caller, stream_results,
                   max_row_buffer, settings, types_check>>

\* every operation of Connection and Cursor, against the client that serves
\* the one-row table
Next ==
    \/ ConnectionCursor
    \/ ConnectionClose
    \/ CursorClose
    \/ ExecuteBrief
    \/ ExecuteMany
    \/ FetchOne
    \/ FetchManySize
    \/ FetchManyDefault
    \/ FetchAll
    \/ SetStreamResults
    \/ SetSettings
    \/ SetTypesCheck
    \/ SetExternalTable

Spec == Init /\ [][Next]_vars

\* the operations that produce and consume results, against a client that
\* serves every result set up to MaxRows rows; the settings, the external
\* tables and the type-checking flag stay as constructed
NextFetch ==
    \/ ConnectionCursor
    \/ ConnectionClose
    \/ CursorClose
    \/ Execute
    \/ ExecuteMany
    \/ FetchOne
    \/ FetchManySize
    \/ FetchManyDefault
    \/ FetchAll
    \/ SetStreamResults

SpecFetch == Init /\ [][NextFetch]_vars

(* ------------------------------ claims -------------------------------- *)
FetchOps == {"fetchone", "fetchmany", "fetchmany()", "fetchall"}
QueryOps == {"execute", "executemany"}
AdapterErrors ==
    {"Error", "InterfaceError", "DatabaseError", "InternalError",
     "OperationalError", "ProgrammingError", "IntegrityError", "DataError",
     "NotSupportedError"}

\* C1: after a successful execute with rows R, during any run of fetchone,
\* fetchmany(k >= 0) and fetchall calls in which no pull fails, no fetch
\* raises, the rows returned so far followed by the rows still held are R
\* in its order, and a fetchall returns the rows not returned before it and
\* leaves nothing behind, in buffered and in streaming mode.
FetchesPartitionResult ==
    pure =>
      /\ lastOp \in FetchOps => raised = NoExc
      /\ rows.kind = (IF stream_results THEN "iter" ELSE "list")
      /\ fetched \o rows.items = full
      /\ lastOp = "fetchall" =>
           /\ ret.kind = "list"
           /\ fetched = full
           /\ rows.items = <<>>
           /\ ret.items =
                SubSeq(full, Len(full) - Len(ret.items) + 1, Len(full))

\* C1 witness: a streaming fetchall that returned the rest of a result of
\* which a part had been fetched before
FetchallAfterPartialFetch ==
    /\ pure
    /\ stream_results
    /\ lastOp = "fetchall"
    /\ ret.items # <<>>
    /\ Len(ret.items) < Len(full)

\* C2: an execute or executemany never ends with the client's native error;
\* a failure of the client reaches the caller as an OperationalError that
\* carries it.
QueryNeverRaisesNative ==
    lastOp \in QueryOps => raised.type # "DriverError"

\* C3: a fetch call never ends with the client's native error; a failed pull
\* on the lazy row source reaches the caller as an adapter error.
FetchNeverRaisesNative ==
    (lastOp \in FetchOps /\ stream_results) => raised.type # "DriverError"

\* C4: after a successful executemany for which the client reported the
\* count n, rowcount is n; before any query and after an execute it is -1.
RowcountReportsBulkCount ==
    /\ (lastOp = "executemany" /\ raised = NoExc
          /\ rowcountField.kind = "int") => rowcount = rowcountField.items[1]
    /\ (state = "NONE" \/ lastOp = "execute") => rowcount = -1

\* C5: in state NONE every fetch call fails with Error 'No query yet',
\* returns nothing and changes neither the state, the result fields nor the
\* staged options.
FetchBeforeQueryRejected ==
    [][(state = "NONE" /\ lastOp' \in FetchOps) =>
         /\ raised' = Exc("Error", "No query yet")
         /\ ret' = NoneV
         /\ state' = "NONE"
         /\ result' = result
         /\ options' = options]_vars

\* C5 witness: a fetch rejected on a cursor that was configured and never
\* ran a query
FetchRejectedOnConfiguredCursor ==
    /\ state = "NONE"
    /\ lastOp \in FetchOps
    /\ raised = Exc("Error", "No query yet")
    /\ stream_results
    /\ types_check
    /\ settings # NoSettings
    /\ DOMAIN external_tables # {}

\* C6: a CLOSED cursor stays CLOSED under every operation; execute and
\* executemany on it fail with Error 'Cursor is closed' without invoking the
\* client and without touching the result or the options.
ClosedIsTerminal ==
    [][state = "CURSOR_CLOSED" =>
         /\ state' = "CURSOR_CLOSED"
         /\ lastOp' \in QueryOps =>
              /\ raised' = Exc("Error", "Cursor is closed")
              /\ call' = NoCall
              /\ result' = result
              /\ options' = options]_vars

\* C6 witness: an execute rejected on a closed cursor
ExecuteRejectedWhenClosed ==
    /\ state = "CURSOR_CLOSED"
    /\ lastOp \in QueryOps
    /\ raised = Exc("Error", "Cursor is closed")

\* C7: on a CLOSED cursor every fetch call is rejected with an adapter error
\* and returns no row.
FetchRejectedWhenClosed ==
    (state = "CURSOR_CLOSED" /\ lastOp \in FetchOps) =>
      /\ raised.type \in AdapterErrors
      /\ RetRows(ret) = <<>>

\* C8: Connection.close returns without raising, and disconnect() has then
\* been invoked on the client of every cursor the connection issued.
ConnectionCloseDisconnectsAll ==
    lastOp = "Connection.close" =>
      /\ raised = NoExc
      /\ \A c \in 1..Len(cursors) : cursors[c] \in disconnected

\* the external-table argument the staged map stands for: one record per
\* name with its latest structure and data, None for an empty map
StagedTables(ext) ==
    IF DOMAIN ext = {} THEN NoTables
    ELSE Tables({[name |-> key, structure |-> ext[key][1],
                  data |-> ext[key][2]] : key \in DOMAIN ext})

\* C9: an execute on an open cursor invokes the client with one
\* {name, structure, data} record per registered name, holding the latest
\* registration, and with None when nothing was registered.
ExecutePassesStagedTables ==
    (lastOp = "execute" /\ raised # Exc("Error", "Cursor is closed")) =>
      /\ call.entry # "none"
      /\ call.external_tables = StagedTables(external_tables)

BulkWriteHoldsNoResult ==
    bulk =>
      /\ description = <<>>
      /\ lastOp \in FetchOps =>
           /\ raised = NoExc
           /\ ret = (IF lastOp = "fetchone" THEN NoneV ELSE ListV(<<>>))

\* the (name, type) pairs of the headers the client reports
HeaderPairs == UNION {{cwt[i] : i \in 1..Len(cwt)} : cwt \in CWTs}

\* C12: in every state the stored columns and types have the same length,
\* description has one descriptor per column, and each descriptor starts
\* with the name and the type the client reported together at that
\* position, followed by (None, None, None, None, True).
ColumnsMatchTypes ==
    LET c == IF columns.kind = "None" THEN <<>> ELSE columns.items
        t == IF types.kind = "None" THEN <<>> ELSE types.items
    IN /\ Len(c) = Len(t)
       /\ Len(description) = Len(c)
       /\ \A i \in 1..Len(c) :
            /\ <<c[i], t[i]>> \in HeaderPairs
            /\ description[i] =
                 <<c[i], t[i], "None", "None", "None", "None", TRUE>>

\* C12 witness: a closed cursor that still describes the two columns of a
\* streamed result
TwoColumnsDescribed ==
    /\ Len(description) = Cardinality(HeaderPairs)
    /\ stream_results
    /\ state = "CURSOR_CLOSED"

\* C13: fetchmany() without a size, arraysize being -1, on a result that has
\* only been fetched from returns an empty list, does not raise and leaves
\* the remaining rows as they are.
DefaultFetchmanyIsEmpty ==
    [][(pure /\ arraysize = -1 /\ lastOp' = "fetchmany()") =>
         /\ raised' = NoExc
         /\ ret' = ListV(<<>>)
         /\ rows' = rows]_vars

\* C14: in streaming mode execute leaves every row of the source unpulled;
\* fetchone takes the next row, or returns the null marker once none is
\* left; fetchmany(k) takes the next k rows or all that are left; fetchall
\* takes all that are left; nothing is pulled beyond what is returned, and
\* nothing comes after the source is exhausted.
StreamPullsOnDemand ==
    /\ []((pure /\ stream_results /\ lastOp = "execute") =>
            rows.kind = "iter" /\ rows.items = full)
    /\ [][(pure /\ pure' /\ stream_results /\ lastOp' \in FetchOps) =>
            LET left == rows.items
                k == Min(asked', Len(left))
            IN /\ lastOp' = "fetchone" =>
                    IF left = <<>>
                    THEN ret' = NoneV /\ rows'.items = <<>>
                    ELSE ret' = RowV(Head(left)) /\ rows'.items = Tail(left)
               /\ lastOp' = "fetchmany" =>
                    /\ ret' = ListV(SubSeq(left, 1, k))
                    /\ rows'.items = SubSeq(left, k + 1, Len(left))
               /\ lastOp' = "fetchall" =>
                    ret' = ListV(left) /\ rows'.items = <<>>
               /\ left = <<>> => RetRows(ret') = <<>>]_vars

\* C14 witness: a streamed result of several rows fetched to its end, and a
\* fetchone past the end
StreamFetchedPastEnd ==
    /\ pure
    /\ stream_results
    /\ lastOp = "fetchone"
    /\ ret = NoneV
    /\ Len(full) > 1
    /\ fetched = full

\* C15: a query clears the previous result on entry: while the cursor is
\* left RUNNING by a failed query, description is empty, no rows and no
\* count are held and no fetch returns a row.
FailedQueryLeavesNoResult ==
    state = "RUNNING" =>
      /\ description = <<>>
      /\ rows.items = <<>>
      /\ rowcountField = IntV(-1)
      /\ lastOp \in FetchOps => RetRows(ret) = <<>>

\* C16: between calls the cursor is never RUNNING, and a query that returned
\* left it FINISHED.
NeverRunningBetweenCalls ==
    /\ state # "RUNNING"
    /\ (lastOp \in QueryOps /\ raised = NoExc) => state = "FINISHED"

\* the settings a streaming execute is to pass for the staged settings
WithBlockSize(s, buffer) ==
    Dict(SetKey(IF s.kind = "None" THEN <<>> ELSE s.map,
                "max_block_size", buffer))

\* C17: a buffered execute hands the client exactly the settings last staged
\* with set_settings; a streaming execute hands it those settings with
\* max_block_size set to the staged row-buffer size.
ExecutePassesStagedSettings ==
    (lastOp = "execute" /\ call.entry # "none") =>
      call.settings = (IF call.entry = "execute" THEN staged
                       ELSE WithBlockSize(staged, max_row_buffer))

\* C18: after a successful execute, fetch calls between which
\* set_stream_results was called do not fail and return rows, a list of
\* rows or the null marker.
ToggleLeavesResultFetchable ==
    (toggled /\ lastOp \in FetchOps) =>
      /\ raised = NoExc
      /\ ret.kind \in {"None", "row", "list"}

FailedQueryDoesNotPoison ==
    [][(state = "RUNNING" /\ lastOp' = "execute") =>
         /\ raised' # Exc("Error", "Cursor is closed")
         /\ call'.entry # "none"
         /\ raised' = NoExc =>
              /\ state' = "FINISHED"
              /\ rows'.items = full']_vars

====
